---- MODULE Spec2Model ----
(***************************************************************************)
(* Workers Builds -> Slack notifications: the queue consumer of            *)
(* src/index.ts.  One call of queue(batch, env) is modelled; every         *)
(* `await fetch(...)` is two steps (the request is issued, the response    *)
(* is handled), so that the order of requests, responses and ack() calls   *)
(* is visible.                                                             *)
(*                                                                         *)
(* Strings that the code only tests with includes() are kept as sequences  *)
(* of words; URLs are kept as the sequence of their template parts, the    *)
(* empty sequence standing for null.  The absent / empty string is "".     *)
(***************************************************************************)
EXTENDS Integers, Sequences, FiniteSets, TLC

\* ------------------------------------------------------------------ bounds
MaxBatch == 2
MaxPages == 3

\* ----------------------------------------------------------- string helpers
\* String.prototype.includes on a word sequence
includes(s, w) == \E k \in 1..Len(s) : s[k] = w

\* String.prototype.toLowerCase on the vocabulary used here
toLowerCase(w) ==
  CASE w = "SUCCEEDED" -> "succeeded"
    [] w = "FAILED"    -> "failed"
    [] w = "Cancelled" -> "cancelled"
    [] w = "Main"      -> "main"
    [] w = "MASTER"    -> "master"
    [] w = "Prod"      -> "prod"
    [] OTHER           -> w

lowerWords(s) == [k \in 1..Len(s) |-> toLowerCase(s[k])]

NULL == <<>>

\* ------------------------------------------------------------------ events
\* message.body; typeKind tells whether event.type is absent, a string, or a
\* truthy value that is not a string (JSON number)
baseEvent ==
  [ typeKind     |-> "string",
    type         |-> <<"build", "succeeded">>,
    hasPayload   |-> TRUE,
    hasMetadata  |-> TRUE,
    buildOutcome |-> "success",
    status       |-> "stopped",
    workerName   |-> "test-worker",
    repoName     |-> "test-worker-repo",
    accountId    |-> "test-account-id",
    buildUuid    |-> "build-1",
    branch       |-> "main" ]

evSucceeded      == baseEvent
evSucceededPrev  == [baseEvent EXCEPT !.branch = "feature/x"]
evSucceededAnon  == [baseEvent EXCEPT !.workerName = "", !.repoName = ""]
evFailed         == [baseEvent EXCEPT !.type = <<"build", "failed">>, !.buildOutcome = "fail"]
evFailedNoAcct   == [evFailed EXCEPT !.accountId = ""]
evFailedCancel   == [evFailed EXCEPT !.buildOutcome = "cancelled"]
evCanceledType   == [baseEvent EXCEPT !.type = <<"build", "canceled">>, !.buildOutcome = "canceled"]
evAmbCancelled   == [baseEvent EXCEPT !.type = <<"build", "stopped">>, !.buildOutcome = "cancelled"]
evUnknown        == [baseEvent EXCEPT !.type = <<"build", "stopped">>, !.buildOutcome = ""]
evStarted        == [baseEvent EXCEPT !.type = <<"build", "started">>, !.buildOutcome = ""]
evQueued         == [baseEvent EXCEPT !.type = <<"build", "queued">>, !.buildOutcome = ""]
evNoType         == [baseEvent EXCEPT !.typeKind = "absent", !.type = <<>>]
evNoPayload      == [baseEvent EXCEPT !.hasPayload = FALSE]
evNoMetadata     == [baseEvent EXCEPT !.hasMetadata = FALSE]
evNumberType     == [baseEvent EXCEPT !.typeKind = "number", !.type = <<>>]
evBoth           == [baseEvent EXCEPT !.type = <<"build", "succeeded", "failed">>]

\* the events batches are made of
Events ==
  { evSucceeded, evSucceededAnon, evFailed, evFailedNoAcct, evFailedCancel, evCanceledType,
    evAmbCancelled, evUnknown, evStarted, evQueued, evNoType, evNoPayload,
    evNoMetadata, evNumberType }

\* the events a batch of one message is made of
AllEvents == Events \cup { evSucceededPrev, evBoth }

Batches == UNION { [1..n -> Events] : n \in 0..MaxBatch }

Envs == [ SLACK_WEBHOOK_URL    : {"", "https://hooks.slack.example"},
          CLOUDFLARE_API_TOKEN : {"", "token"} ]

\* ------------------------------------------------- responses of the HTTP peers
BuildResponses ==
  [ outcome : {"neterr", "nonjson"}, ok : {FALSE}, hasResult : {FALSE}, preview_url : {NULL} ]
  \cup [ outcome : {"json"}, ok : {TRUE}, hasResult : {TRUE},
         preview_url : {NULL, <<"https://preview.example">>} ]
  \cup [ outcome : {"json"}, ok : {FALSE}, hasResult : {FALSE}, preview_url : {NULL} ]

SubdomainResponses ==
  [ outcome : {"neterr", "nonjson"}, ok : {FALSE}, hasResult : {FALSE}, subdomain : {""} ]
  \cup [ outcome : {"json"}, ok : {TRUE}, hasResult : {TRUE}, subdomain : {"", "acme"} ]
  \cup [ outcome : {"json"}, ok : {FALSE}, hasResult : {FALSE}, subdomain : {""} ]

\* result.lines of one page: [lineNumber, text] pairs
LinePages ==
  { <<>>,
    << <<1, "ERROR: boom">> >>,
    << <<1, "step ok">>, <<2, "    at f (x.js:1)">> >> }

Cursors == {"", "c1"}

LogsResponses ==
  [ outcome : {"neterr", "nonjson"}, ok : {FALSE}, hasResult : {FALSE},
    lines : {<<>>}, truncated : {FALSE}, cursor : {""} ]
  \cup [ outcome : {"json"}, ok : {TRUE}, hasResult : {TRUE},
         lines : LinePages, truncated : BOOLEAN, cursor : Cursors ]
  \cup [ outcome : {"json"}, ok : {FALSE}, hasResult : {FALSE},
         lines : {<<>>}, truncated : {FALSE}, cursor : {""} ]

\* the sink: fetch rejects, 2xx, or non-2xx whose body can or cannot be read
SlackResponses == {"neterr", "ok", "error_text", "error_text_throws"}

\* ------------------------------------------------------------ pure helpers
\* Array.prototype.slice(-n)
sliceLast(s, n) == IF Len(s) <= n THEN s ELSE SubSeq(s, Len(s) - n + 1, Len(s))

\* lines containing one of errorIndicators (index.ts:107-113)
errorIndicatorLines == {"ERROR: boom", "Error: other", "ERROR: long"}

hasErrorIndicator(line) == line \in errorIndicatorLines

\* a line that trim() empties
blankLine(line) == line \in {"", "  "}

\* an extraction without the test for an empty log
extractBuildErrorNoEmptyTest(lg) ==
  LET lastLines == sliceLast(lg, 30)
      hits == {i \in 1..Len(lastLines) : hasErrorIndicator(lastLines[i])}
  IN IF hits # {}
       THEN LET errorStartIdx == CHOOSE i \in hits : \A j \in hits : j <= i
                last == IF errorStartIdx + 7 <= Len(lastLines)
                          THEN errorStartIdx + 7 ELSE Len(lastLines)
            IN SubSeq(lastLines, errorStartIdx, last)
       ELSE LET fallback == sliceLast(lastLines, 8)
            IN IF \A k \in 1..Len(fallback) : blankLine(fallback[k])
                 THEN <<"Build failed">> ELSE fallback

\* the extracted text is kept as the sequence of the lines that are joined
extractBuildError(lg) ==
  IF Len(lg) = 0 THEN <<"No logs available">>
  ELSE
    LET lastLines == sliceLast(lg, 30)
        hits == {i \in 1..Len(lastLines) : hasErrorIndicator(lastLines[i])}
    IN IF hits # {}
         THEN LET errorStartIdx == CHOOSE i \in hits : \A j \in hits : j <= i
                  last == IF errorStartIdx + 7 <= Len(lastLines)
                            THEN errorStartIdx + 7 ELSE Len(lastLines)
              IN SubSeq(lastLines, errorStartIdx, last)
         ELSE LET fallback == sliceLast(lastLines, 8)
              IN IF \A k \in 1..Len(fallback) : blankLine(fallback[k])
                   THEN <<"Build failed">> ELSE fallback

\* String.prototype.length of the lines and texts used here; "ERROR: long" and
\* "long output" stand for lines of 1500 and 900 characters
lineLength(line) ==
  CASE line = "ERROR: long"        -> 1500
    [] line = "long output"        -> 900
    [] line = "    at f (x.js:1)"  -> 17
    [] line = "No logs available"  -> 17
    [] line = "Build failed"       -> 12
    [] line = "Error: other"       -> 12
    [] line = "ERROR: boom"        -> 11
    [] line = "step ok"            -> 7
    [] line = "  "                 -> 2
    [] OTHER                       -> 0

\* the white space a line starts with
leadingBlanks(line) == IF line = "    at f (x.js:1)" THEN 4 ELSE 0

\* what trim() leaves of the joined lines: the blank lines at both ends go
trimLines(ls) ==
  LET solid == {k \in 1..Len(ls) : ~blankLine(ls[k])}
  IN IF solid = {} THEN <<>>
     ELSE SubSeq(ls, CHOOSE a \in solid : \A k \in solid : a <= k,
                     CHOOSE b \in solid : \A k \in solid : k <= b)

RECURSIVE joinedLength(_)
\* ls.join('\n').length
joinedLength(ls) ==
  IF Len(ls) = 0 THEN 0
  ELSE IF Len(ls) = 1 THEN lineLength(ls[1])
  ELSE joinedLength(SubSeq(ls, 1, Len(ls) - 1)) + 1 + lineLength(ls[Len(ls)])

\* ls.join('\n').trim().length
trimmedLength(ls) ==
  LET t == trimLines(ls)
  IN IF t = <<>> THEN 0 ELSE joinedLength(t) - leadingBlanks(t[1])

\* the string extractBuildError returns: the lines it is made of, its length,
\* and whether '\n...' was appended (index.ts:125-130)
extractBuildErrorText(lg) ==
  LET lastLines == sliceLast(lg, 30)
      matched == \E i \in 1..Len(lastLines) : hasErrorIndicator(lastLines[i])
      chosen == extractBuildError(lg)
  IN IF Len(lg) = 0 \/ ~matched
       THEN \* 'No logs available', fallback || 'Build failed'
            [ lines  |-> trimLines(chosen),
              length |-> trimmedLength(chosen),
              marker |-> FALSE ]
       ELSE IF trimmedLength(chosen) > 800
         THEN [ lines |-> trimLines(chosen), length |-> 800 + 4, marker |-> TRUE ]
         ELSE [ lines  |-> trimLines(chosen),
                length |-> trimmedLength(chosen),
                marker |-> FALSE ]

\* --- getBuildDuration
\* a JavaScript number that may be NaN
num(n) == [nan |-> FALSE, v |-> n]
NaN == [nan |-> TRUE, v |-> 0]

\* a timestamp field: absent (or empty), a string Date cannot parse, or a date
\* given by its milliseconds
absentTime == [k |-> "absent", ms |-> 0]
badTime == [k |-> "bad", ms |-> 0]
timeAt(n) == [k |-> "ms", ms |-> n]

\* new Date(s).getTime()
getTime(ts) == IF ts.k = "ms" THEN num(ts.ms) ELSE NaN

minus(a, b) == IF a.nan \/ b.nan THEN NaN ELSE num(a.v - b.v)

\* Math.floor(a / d)
floorDiv(a, d) == IF a.nan THEN NaN ELSE num(a.v \div d)

\* a % d, for a that is not negative
remainder(a, d) == IF a.nan THEN NaN ELSE num(a.v % d)

\* a < n is false when a is NaN
lessThan(a, n) == ~a.nan /\ a.v < n

\* the string returned: null, `${s}s` or `${m}m ${s}s`
noDuration == [form |-> "null", m |-> num(0), s |-> num(0)]

getBuildDuration(payload) ==
  LET start == payload.createdAt
      end == payload.stoppedAt
  IN IF start.k = "absent" \/ end.k = "absent" THEN noDuration
     ELSE LET durationMs == minus(getTime(end), getTime(start))
              seconds == floorDiv(durationMs, 1000)
          IN IF lessThan(seconds, 60)
               THEN [form |-> "s", m |-> num(0), s |-> seconds]
               ELSE [form |-> "m s", m |-> floorDiv(seconds, 60),
                     s |-> remainder(seconds, 60)]

\* a test that knows main and master only
isProductionBranchMainOnly(branch) == branch \in {"main", "master"}

isProductionBranch(branch) ==
  IF branch = "" THEN TRUE
  ELSE toLowerCase(branch) \in {"main", "master", "production", "prod"}

\* a dashboard URL built from source.workerName alone
getDashboardUrlNoFallback(event) ==
  IF event.accountId = "" \/ event.buildUuid = "" THEN NULL
  ELSE << "https://dash.cloudflare.com/", event.accountId,
          "/workers/services/view/", event.workerName,
          "/production/builds/", event.buildUuid >>

getDashboardUrl(event) ==
  LET workerName == IF event.workerName # "" THEN event.workerName
                    ELSE IF event.repoName # "" THEN event.repoName ELSE "worker"
  IN IF event.accountId = "" \/ event.buildUuid = "" THEN NULL
     ELSE << "https://dash.cloudflare.com/", event.accountId,
             "/workers/services/view/", workerName,
             "/production/builds/", event.buildUuid >>

\* a build whose cancelled outcome is not looked at
isCancelledNever(event) == FALSE

\* const isCancelled = buildOutcome === 'cancelled'
isCancelled(event) == event.buildOutcome = "cancelled"

\* a button that is always primary-styled
buttonAllPrimary(label, url, style) == [label |-> label, url |-> url, style |-> "primary"]

button(label, url, style) == [label |-> label, url |-> url, style |-> style]

\* a failed template that carries the button of the other templates
failedButtonsViewBuild(dashUrl) ==
  IF dashUrl # NULL THEN << button("View Build", dashUrl, "") >> ELSE <<>>

\* the actions block of the failed template (index.ts:356-366)
failedButtons(dashUrl) ==
  IF dashUrl # NULL THEN << button("View Full Logs", dashUrl, "danger") >> ELSE <<>>

NoPayload == [template |-> "none", blocks |-> <<>>, buttons |-> <<>>, error |-> <<>>]

\* contextElements.length > 0 / fields.length > 0: the events of the model carry
\* no commit hash and no timestamps, the branch is what is left
hasContext(event) == event.branch # ""

\* blocks.push(...) of one template: the kinds of its blocks, in order
blocksOf(first, ctx, event, btns) ==
  first \o (IF hasContext(event) THEN <<ctx>> ELSE <<>>)
        \o (IF Len(btns) > 0 THEN <<"actions">> ELSE <<>>)

\* the Slack payload: which template was chosen, the kinds of its blocks, its
\* action buttons, and the error text of the failed template
buildSlackBlocks(event, pUrl, lUrl, lg) ==
  LET dashUrl     == getDashboardUrl(event)
      isFailed    == includes(event.type, "failed") /\ ~isCancelled(event)
      isSucceeded == includes(event.type, "succeeded")
      isProduction == isProductionBranch(event.branch)
      viewBuild   == IF dashUrl # NULL THEN << button("View Build", dashUrl, "") >> ELSE <<>>
      prodButtons == (IF lUrl # NULL THEN << button("Open Worker", lUrl, "primary") >> ELSE <<>>)
                     \o viewBuild
      prevButtons == (IF pUrl # NULL THEN << button("View Preview", pUrl, "primary") >> ELSE <<>>)
                     \o viewBuild
      logButtons  == failedButtons(dashUrl)
  IN IF isSucceeded /\ isProduction THEN
       [ template |-> "production",
         blocks   |-> blocksOf(<<"section">>, "context", event, prodButtons),
         buttons  |-> prodButtons,
         error    |-> <<>> ]
     ELSE IF isSucceeded /\ ~isProduction THEN
       [ template |-> "preview",
         blocks   |-> blocksOf(<<"section">>, "context", event, prevButtons),
         buttons  |-> prevButtons,
         error    |-> <<>> ]
     ELSE IF isFailed THEN
       [ template |-> "failed",
         blocks   |-> <<"section">> \o (IF hasContext(event) THEN <<"fields">> ELSE <<>>)
                      \o <<"code">> \o (IF Len(logButtons) > 0 THEN <<"actions">> ELSE <<>>),
         buttons  |-> logButtons,
         error    |-> extractBuildError(lg) ]
     ELSE IF isCancelled(event) THEN
       [ template |-> "cancelled",
         blocks   |-> blocksOf(<<"section">>, "context", event, viewBuild),
         buttons  |-> viewBuild,
         error    |-> <<>> ]
     ELSE
       [ template |-> "fallback", blocks |-> <<"section">>, buttons |-> <<>>, error |-> <<>> ]

\* a normalization that does not lower-case the type
normalizeBuildStateCaseSensitive(event) ==
  LET type == event.type
      outcome == toLowerCase(event.buildOutcome)
      status == toLowerCase(event.status)
      canceledVals == {"canceled", "cancelled", "canceled_build", "cancelled_build"}
      failedVals == {"failed", "failure", "error"}
      successVals == {"success", "succeeded", "ok"}
  IN IF includes(type, "succeeded") THEN "succeeded"
     ELSE IF includes(type, "failed") THEN "failed"
     ELSE IF includes(type, "canceled") \/ includes(type, "cancelled") THEN "canceled"
     ELSE IF outcome \in canceledVals \/ status \in canceledVals THEN "canceled"
     ELSE IF outcome \in failedVals \/ status \in failedVals THEN "failed"
     ELSE IF outcome \in successVals \/ status \in successVals THEN "succeeded"
     ELSE "unknown"

\* a normalization that lets buildOutcome decide before status is looked at
normalizeBuildStateOutcomeFirst(event) ==
  LET type == lowerWords(event.type)
      outcome == toLowerCase(event.buildOutcome)
      status == toLowerCase(event.status)
      canceledVals == {"canceled", "cancelled", "canceled_build", "cancelled_build"}
      failedVals == {"failed", "failure", "error"}
      successVals == {"success", "succeeded", "ok"}
  IN IF includes(type, "succeeded") THEN "succeeded"
     ELSE IF includes(type, "failed") THEN "failed"
     ELSE IF includes(type, "canceled") \/ includes(type, "cancelled") THEN "canceled"
     ELSE IF outcome \in canceledVals THEN "canceled"
     ELSE IF outcome \in failedVals THEN "failed"
     ELSE IF outcome \in successVals THEN "succeeded"
     ELSE IF status \in canceledVals THEN "canceled"
     ELSE IF status \in failedVals THEN "failed"
     ELSE IF status \in successVals THEN "succeeded"
     ELSE "unknown"

\* normalizeBuildState of the uniform-skeleton variant (test/index.spec.ts)
normalizeBuildState(event) ==
  LET type == lowerWords(event.type)
      outcome == toLowerCase(event.buildOutcome)
      status == toLowerCase(event.status)
      canceledVals == {"canceled", "cancelled", "canceled_build", "cancelled_build"}
      failedVals == {"failed", "failure", "error"}
      successVals == {"success", "succeeded", "ok"}
  IN IF includes(type, "succeeded") THEN "succeeded"
     ELSE IF includes(type, "failed") THEN "failed"
     ELSE IF includes(type, "canceled") \/ includes(type, "cancelled") THEN "canceled"
     ELSE IF outcome \in canceledVals \/ status \in canceledVals THEN "canceled"
     ELSE IF outcome \in failedVals \/ status \in failedVals THEN "failed"
     ELSE IF outcome \in successVals \/ status \in successVals THEN "succeeded"
     ELSE "unknown"

\* --------------------------------------------- decisions of the queue handler
\* a skip that forgets the queued events
skipEventStartedOnly(event) == includes(event.type, "started")

\* a validation that forgets payload and metadata
invalidEventTypeOnly(event) == event.typeKind = "absent"

\* !event?.type || !event?.payload || !event?.metadata
invalidEvent(event) ==
  event.typeKind = "absent" \/ ~event.hasPayload \/ ~event.hasMetadata

\* event.type.includes(...) on a value that is not a string is a TypeError
typeThrows(event) == event.typeKind = "number"

skipEvent(event) == includes(event.type, "started") \/ includes(event.type, "queued")

queueWorkerName(event) ==
  IF event.workerName # "" THEN event.workerName ELSE event.repoName

\* a URL fetch that does not look at the token
fetchUrlsWithoutToken(event, e) ==
  /\ includes(event.type, "succeeded")
  /\ queueWorkerName(event) # ""
  /\ event.accountId # ""

fetchUrls(event, e) ==
  /\ includes(event.type, "succeeded")
  /\ queueWorkerName(event) # ""
  /\ event.accountId # ""
  /\ e.CLOUDFLARE_API_TOKEN # ""

\* a log fetch that forgets the cancelled outcome
fetchLogsIgnoresOutcome(event, e) ==
  /\ includes(event.type, "failed")
  /\ event.accountId # ""
  /\ e.CLOUDFLARE_API_TOKEN # ""

fetchLogs(event, e) ==
  /\ includes(event.type, "failed")
  /\ ~isCancelled(event)
  /\ event.accountId # ""
  /\ e.CLOUDFLARE_API_TOKEN # ""

\* logsData.result.lines.map(l => l[1])
lineTexts(lines) == [k \in 1..Len(lines) |-> lines[k][2]]

appendLines(lg, r) ==
  IF r.hasResult /\ Len(r.lines) > 0 THEN lg \o lineTexts(r.lines) ELSE lg

\* a cursor that is followed although the page is not truncated
nextCursorIgnoresTruncated(r) == IF r.hasResult THEN r.cursor ELSE ""

\* cursor = logsData.result?.truncated ? logsData.result?.cursor : null
nextCursor(r) == IF r.hasResult /\ r.truncated THEN r.cursor ELSE ""

\* while (cursor)
continuePaging(c) == c # ""

\* a live URL built whatever the subdomain is
synthLiveUrlAlways(event, r) ==
  << "https://", queueWorkerName(event), ".", r.subdomain, ".workers.dev" >>

\* liveUrl = `https://${workerName}.${subData.result.subdomain}.workers.dev`
synthLiveUrl(event, r) ==
  IF r.hasResult /\ r.subdomain # ""
    THEN << "https://", queueWorkerName(event), ".", r.subdomain, ".workers.dev" >>
    ELSE NULL

\* the handler without its outer / URL try block
noTryCatchMessage == FALSE
noTryCatchUrls == FALSE

\* the try/catch blocks of queue()
tryCatchMessage == TRUE
tryCatchUrls == TRUE
tryCatchLogs == TRUE

\* an ack() that is lost
ackNoop(a, i) == a

\* message.ack()
ack(a, i) == [a EXCEPT ![i] = @ + 1]

\* a missing-webhook branch that returns without acking
ackNone(n) == [i \in 1..n |-> 0]

\* the missing-webhook branch: for (const message of batch.messages) message.ack()
ackAll(n) == [i \in 1..n |-> 1]

\* ------------------------------------------------------------------- state
VARIABLES
  env,         \* configuration of the worker
  pc,          \* position of queue(): idle, loop, *_wait, done, thrown
  batch,       \* batch.messages (bodies)
  idx,         \* index of the message the for loop is at
  previewUrl, liveUrl, logs, cursor,   \* locals of the loop body
  acks,        \* number of ack() calls per message
  retries,     \* number of retry() calls per message
  caught,      \* number of runs of the outer catch block per message
  pending,     \* the HTTP request that is awaited
  nEnrich,     \* requests sent to the Cloudflare API, per message
  nPost,       \* POSTs sent to the webhook, per message
  sent,        \* the payload POSTed for the message being processed
  reqLog,      \* requests of the message being processed, in order
  pages,       \* log page responses of the message being processed
  enrichErr,   \* enrichment failures of this message: the sections whose catch
               \* block ran, and "build_status" when the build details were
               \* answered with an error status or success:false
  slackResp,   \* the last answer of the webhook and the message it was for
  fn, arg, res \* a helper function applied on its own: name, input, result

ctl == << pc, idx, pending, acks, caught >>
loc == << previewUrl, liveUrl, logs, cursor >>
out == << nEnrich, nPost, sent, reqLog >>
obs == << pages, enrichErr, slackResp >>
fix == << env, batch, retries, fn, arg, res >>

vars == << env, pc, batch, idx, previewUrl, liveUrl, logs, cursor, acks,
           retries, caught, pending, nEnrich, nPost, sent, reqLog, pages,
           enrichErr, slackResp, fn, arg, res >>

NoRequest == [msg |-> 0, kind |-> "none"]

\* an array declared once outside the for loop: a message starts with the lines
\* the message before it collected
newLogsShared == logs

\* let logs: string[] = []   (declared in the loop body: a new array per message)
newLogs == <<>>
NoSlack == [msg |-> 0, r |-> ""]

request(kind, c) == [kind |-> kind, cursor |-> c]

\* queue() has not been called
Idle ==
  /\ pc = "idle"
  /\ batch = <<>>
  /\ idx = 1
  /\ previewUrl = NULL /\ liveUrl = NULL /\ logs = <<>> /\ cursor = ""
  /\ acks = <<>> /\ retries = <<>> /\ caught = <<>>
  /\ pending = NoRequest
  /\ nEnrich = <<>> /\ nPost = <<>> /\ sent = NoPayload
  /\ reqLog = <<>> /\ pages = <<>>
  /\ enrichErr = {} /\ slackResp = NoSlack

\* no helper is applied on its own
NoCall == fn = "none" /\ arg = <<>> /\ res = <<>>

Init ==
  /\ env \in Envs
  /\ Idle
  /\ NoCall

\* ------------------------------------------------------- fragments of queue()
\* Each fragment fixes the next value of the variable groups named with it.

\* end of one iteration of the for loop                       [pc, idx, pending]
NextMessage ==
  /\ idx' = idx + 1
  /\ pc' = IF idx = Len(batch) THEN "done" ELSE "loop"
  /\ pending' = NoRequest

\* message.ack() at the end of the try block or before continue           [ctl]
AckAndContinue ==
  /\ acks' = ack(acks, idx)
  /\ caught' = caught
  /\ NextMessage

\* a catch block that only logs
CatchErrorNoAck ==
  /\ acks' = acks
  /\ caught' = [caught EXCEPT ![idx] = @ + 1]
  /\ NextMessage

\* catch (error) { console.error(...); message.ack(); }                   [ctl]
CatchError ==
  IF tryCatchMessage
    THEN /\ acks' = ack(acks, idx)
         /\ caught' = [caught EXCEPT ![idx] = @ + 1]
         /\ NextMessage
    ELSE /\ pc' = "thrown"
         /\ pending' = NoRequest
         /\ UNCHANGED << idx, acks, caught >>

\* a GET to the Cloudflare API is issued for the current message     [ctl, out]
IssueGet(log, kind, c, wait) ==
  /\ pc' = wait
  /\ pending' = [msg |-> idx, kind |-> kind]
  /\ reqLog' = Append(log, request(kind, c))
  /\ nEnrich' = [nEnrich EXCEPT ![idx] = @ + 1]
  /\ sent' = NoPayload
  /\ UNCHANGED << idx, acks, caught, nPost >>

\* a handler that acks before it POSTs
DeliverAckFirst(log, p, l, lg) ==
  /\ previewUrl' = p /\ liveUrl' = l /\ logs' = lg /\ cursor' = ""
  /\ sent' = buildSlackBlocks(batch[idx], p, l, lg)
  /\ nPost' = [nPost EXCEPT ![idx] = @ + 1]
  /\ reqLog' = Append(log, request("slack", ""))
  /\ pending' = [msg |-> idx, kind |-> "slack"]
  /\ pc' = "post_wait"
  /\ acks' = ack(acks, idx)
  /\ UNCHANGED << idx, caught, nEnrich >>

\* buildSlackBlocks and the POST to the webhook                 [ctl, out, loc]
Deliver(log, p, l, lg) ==
  /\ previewUrl' = p /\ liveUrl' = l /\ logs' = lg /\ cursor' = ""
  /\ sent' = buildSlackBlocks(batch[idx], p, l, lg)
  /\ nPost' = [nPost EXCEPT ![idx] = @ + 1]
  /\ reqLog' = Append(log, request("slack", ""))
  /\ pending' = [msg |-> idx, kind |-> "slack"]
  /\ pc' = "post_wait"
  /\ UNCHANGED << idx, acks, caught, nEnrich >>

\* the log section, entered after the URL section                [ctl, out, loc]
LogsOrDeliver(log, p, l) ==
  IF fetchLogs(batch[idx], env)
    THEN /\ previewUrl' = p /\ liveUrl' = l /\ logs' = newLogs /\ cursor' = ""
         /\ IssueGet(log, "logs", "", "logs_wait")
    ELSE Deliver(log, p, l, newLogs)

\* the locals of the loop body go out of scope (the next message gets its own
\* logs array); the record of the message's requests is cleared with them
\*                                                                   [out, loc]
EndOfBody ==
  /\ reqLog' = <<>>
  /\ sent' = NoPayload
  /\ previewUrl' = NULL /\ liveUrl' = NULL /\ logs' = newLogs /\ cursor' = ""
  /\ UNCHANGED << nEnrich, nPost >>

\* an exception that reaches the outer catch block               [ctl, out, loc]
Abort ==
  /\ CatchError
  /\ EndOfBody

\* nothing is sent for this message                              [ctl, out, loc]
Drop ==
  /\ AckAndContinue
  /\ EndOfBody

\* a handler that POSTs again after a non-2xx answer
SinkAnsweredRetry(r) ==
  IF r = "error_text"
    THEN Deliver(reqLog, previewUrl, liveUrl, logs)
    ELSE /\ IF r = "ok" THEN AckAndContinue ELSE CatchError
         /\ EndOfBody

\* a handler that acks before it reads the body of a non-2xx answer, and whose
\* catch block acks again when the read throws
SinkAnsweredAckEarly(r) ==
  /\ IF r \in {"ok", "error_text"} THEN AckAndContinue
     ELSE IF r = "error_text_throws"
       THEN /\ acks' = ack(ack(acks, idx), idx)
            /\ caught' = [caught EXCEPT ![idx] = @ + 1]
            /\ NextMessage
       ELSE CatchError
  /\ EndOfBody

\* the answer of the webhook: if (!response.ok) console.error(...,
\* await response.text()); message.ack()                        [ctl, out, loc]
SinkAnswered(r) ==
  /\ IF r \in {"ok", "error_text"} THEN AckAndContinue ELSE CatchError
  /\ EndOfBody

\* ------------------------------------------------------------------ actions
queueOn(B) ==
  /\ pc = "idle"
  /\ \E b \in B :
       /\ batch' = b
       /\ retries' = [i \in 1..Len(b) |-> 0]
       /\ caught' = [i \in 1..Len(b) |-> 0]
       /\ nEnrich' = [i \in 1..Len(b) |-> 0]
       /\ nPost' = [i \in 1..Len(b) |-> 0]
       /\ IF env.SLACK_WEBHOOK_URL = ""
            THEN /\ acks' = ackAll(Len(b))
                 /\ pc' = "done"
            ELSE /\ acks' = [i \in 1..Len(b) |-> 0]
                 /\ pc' = IF Len(b) = 0 THEN "done" ELSE "loop"
  /\ UNCHANGED << env, idx, pending, sent, reqLog, fn, arg, res >>
  /\ UNCHANGED loc
  /\ UNCHANGED obs

queue == queueOn(Batches)

\* the loop body up to its first await   (index.ts:436-487)
ProcessMessage ==
  /\ pc = "loop"
  /\ pages' = <<>> /\ enrichErr' = {} /\ slackResp' = NoSlack
  /\ LET event == batch[idx] IN
       IF invalidEvent(event) THEN Drop
       ELSE IF typeThrows(event) THEN Abort
       ELSE IF skipEvent(event) THEN Drop
       ELSE IF fetchUrls(event, env) THEN
         /\ previewUrl' = NULL /\ liveUrl' = NULL /\ logs' = <<>> /\ cursor' = ""
         /\ IssueGet(<<>>, "build", "", "build_wait")
       ELSE LogsOrDeliver(<<>>, NULL, NULL)
  /\ UNCHANGED fix

\* the build-details response   (index.ts:466-474, 484-486)
BuildResponse ==
  /\ pc = "build_wait"
  /\ \E r \in BuildResponses :
       IF r.outcome # "json" THEN
         /\ enrichErr' = enrichErr \cup {"urls"}
         /\ IF tryCatchUrls THEN LogsOrDeliver(reqLog, previewUrl, liveUrl)
                            ELSE Abort
       ELSE IF r.hasResult /\ r.preview_url # NULL THEN
         /\ enrichErr' = enrichErr
         /\ LogsOrDeliver(reqLog, r.preview_url, liveUrl)
       ELSE
         /\ enrichErr' = IF r.ok THEN enrichErr ELSE enrichErr \cup {"build_status"}
         /\ IssueGet(reqLog, "subdomain", "", "sub_wait")
         /\ UNCHANGED loc
  /\ UNCHANGED << pages, slackResp >>
  /\ UNCHANGED fix

\* the workers-subdomain response   (index.ts:475-486)
SubdomainResponse ==
  /\ pc = "sub_wait"
  /\ \E r \in SubdomainResponses :
       IF r.outcome # "json" THEN
         /\ enrichErr' = enrichErr \cup {"urls"}
         /\ IF tryCatchUrls THEN LogsOrDeliver(reqLog, previewUrl, liveUrl)
                            ELSE Abort
       ELSE
         /\ enrichErr' = enrichErr
         /\ LogsOrDeliver(reqLog, previewUrl, synthLiveUrl(batch[idx], r))
  /\ UNCHANGED << pages, slackResp >>
  /\ UNCHANGED fix

\* one turn of the do/while over the log pages   (index.ts:496-513)
LogsPage(r) ==
  IF r.outcome # "json" THEN
    /\ enrichErr' = enrichErr \cup {"logs"}
    /\ IF tryCatchLogs THEN Deliver(reqLog, previewUrl, liveUrl, logs)
                       ELSE Abort
  ELSE IF continuePaging(nextCursor(r)) THEN
    /\ enrichErr' = enrichErr
    /\ logs' = appendLines(logs, r)
    /\ cursor' = nextCursor(r)
    /\ IssueGet(reqLog, "logs", nextCursor(r), "logs_wait")
    /\ UNCHANGED << previewUrl, liveUrl >>
  ELSE
    /\ enrichErr' = enrichErr
    /\ Deliver(reqLog, previewUrl, liveUrl, appendLines(logs, r))

\* the API may hand out a further cursor only while fewer than MaxPages pages
\* have been requested
LogsResponse ==
  /\ pc = "logs_wait"
  /\ \E r \in LogsResponses :
       /\ continuePaging(nextCursor(r)) => Len(pages) + 1 < MaxPages
       /\ LogsPage(r)
       /\ pages' = Append(pages, r)
  /\ slackResp' = slackResp
  /\ UNCHANGED fix

\* the webhook response   (index.ts:519-533)
SlackResponse ==
  /\ pc = "post_wait"
  /\ \E r \in SlackResponses :
       /\ SinkAnswered(r)
       /\ slackResp' = [msg |-> idx, r |-> r]
  /\ pages' = <<>> /\ enrichErr' = {}
  /\ UNCHANGED fix

Next ==
  \/ queue
  \/ ProcessMessage
  \/ BuildResponse
  \/ SubdomainResponse
  \/ LogsResponse
  \/ SlackResponse

Spec == Init /\ [][Next]_vars

\* ------------------------------------------------- the handler run to its end
\* The same handler with an API that may hand out cursors for ever.  The page
\* history is not recorded here (it would grow without bound); an answer may add
\* lines only while the collected log has at most MaxLogLines lines.
MaxLogLines == 4

LiveCursors == {"", "c1", "c2"}

LogsResponsesLive ==
  { r \in LogsResponses : r.outcome # "json" \/ ~r.hasResult }
  \cup [ outcome : {"json"}, ok : {TRUE}, hasResult : {TRUE},
         lines : LinePages, truncated : BOOLEAN, cursor : LiveCursors ]

LogsResponseUnbounded ==
  /\ pc = "logs_wait"
  /\ \E r \in LogsResponsesLive :
       /\ Len(appendLines(logs, r)) <= MaxLogLines
       /\ IF r.outcome = "json" /\ continuePaging(nextCursor(r))
            THEN /\ logs' = appendLines(logs, r)
                 /\ cursor' = nextCursor(r)
                 /\ pending' = [msg |-> idx, kind |-> "logs"]
                 /\ UNCHANGED << pc, idx, acks, caught, previewUrl, liveUrl, enrichErr >>
                 /\ UNCHANGED out
            ELSE LogsPage(r)
  /\ UNCHANGED << pages, slackResp >>
  /\ UNCHANGED fix

queueOne == queueOn([1..1 -> AllEvents])

NextFair ==
  \/ queueOne
  \/ ProcessMessage
  \/ BuildResponse
  \/ SubdomainResponse
  \/ LogsResponseUnbounded
  \/ SlackResponse

\* the runtime keeps running the handler and every awaited call settles
FairSpec == Init /\ [][NextFair]_vars /\ WF_vars(NextFair)

\* ------------------------------------------------ helpers applied on their own
\* A helper is called once on an input drawn from the sets below; the handler
\* stays idle.
hvars == << env, pc, batch, idx, previewUrl, liveUrl, logs, cursor, acks,
            retries, caught, pending, nEnrich, nPost, sent, reqLog, pages,
            enrichErr, slackResp >>

\* values of payload.buildOutcome and payload.status
OutcomeWords ==
  { "", "success", "succeeded", "ok", "fail", "failed", "failure", "error",
    "canceled", "cancelled", "canceled_build", "cancelled_build",
    "Cancelled", "FAILED", "SUCCEEDED", "stopped" }

\* values of event.type; the empty one is an absent or non-string type
NormTypes ==
  { <<"build", "succeeded">>, <<"build", "SUCCEEDED">>, <<"build", "failed">>,
    <<"build", "FAILED">>, <<"build", "canceled">>, <<"build", "cancelled">>,
    <<"build", "stopped">>, <<"build", "succeeded", "failed">>, <<>> }

NormInputs ==
  { [baseEvent EXCEPT !.type = t, !.buildOutcome = o, !.status = st] :
      t \in NormTypes, o \in OutcomeWords, st \in OutcomeWords }

\* timestamps of a payload, MaxTicks steps of TickMs apart
MaxTicks == 3
TickMs == 20500

Timestamps == {absentTime, badTime} \cup {timeAt(k * TickMs) : k \in 0..MaxTicks}

DurationInputs ==
  [createdAt : Timestamps, runningAt : Timestamps, stoppedAt : Timestamps]

\* build logs of at most MaxErrLog lines
MaxErrLog == 3

LogLines ==
  { "ERROR: boom", "Error: other", "ERROR: long", "    at f (x.js:1)", "step ok",
    "long output", "" }

LogInputs == UNION { [1..n -> LogLines] : n \in 0..MaxErrLog }

\* values of buildTriggerMetadata.branch; the empty one is an absent branch
Branches ==
  { "", "main", "Main", "master", "MASTER", "production", "prod", "Prod",
    "feature/x", "develop", "mainline" }

\* events as getDashboardUrl sees them
DashboardInputs ==
  { [baseEvent EXCEPT !.accountId = a, !.buildUuid = b, !.workerName = w, !.repoName = r] :
      a \in {"", "test-account-id"}, b \in {"", "build-1"},
      w \in {"", "test-worker"}, r \in {"", "fallback-worker"} }

HelperInputs ==
  [kind : {"event"}, v : NormInputs]
  \cup [kind : {"branch"}, v : Branches]
  \cup [kind : {"dashboard"}, v : DashboardInputs]
  \cup [kind : {"payload"}, v : DurationInputs]
  \cup [kind : {"logs"}, v : LogInputs]

InitHelpers ==
  /\ env = [SLACK_WEBHOOK_URL |-> "https://hooks.slack.example",
            CLOUDFLARE_API_TOKEN |-> "token"]
  /\ Idle
  /\ fn = "none" /\ res = <<>>
  /\ arg \in HelperInputs

CallNormalizeBuildState ==
  /\ fn = "none" /\ arg.kind = "event"
  /\ fn' = "normalizeBuildState"
  /\ res' = normalizeBuildState(arg.v)
  /\ UNCHANGED arg
  /\ UNCHANGED hvars

CallGetBuildDuration ==
  /\ fn = "none" /\ arg.kind = "payload"
  /\ fn' = "getBuildDuration"
  /\ res' = getBuildDuration(arg.v)
  /\ UNCHANGED arg
  /\ UNCHANGED hvars

CallExtractBuildError ==
  /\ fn = "none" /\ arg.kind = "logs"
  /\ fn' = "extractBuildError"
  /\ res' = extractBuildErrorText(arg.v)
  /\ UNCHANGED arg
  /\ UNCHANGED hvars

CallIsProductionBranch ==
  /\ fn = "none" /\ arg.kind = "branch"
  /\ fn' = "isProductionBranch"
  /\ res' = isProductionBranch(arg.v)
  /\ UNCHANGED arg
  /\ UNCHANGED hvars

CallGetDashboardUrl ==
  /\ fn = "none" /\ arg.kind = "dashboard"
  /\ fn' = "getDashboardUrl"
  /\ res' = getDashboardUrl(arg.v)
  /\ UNCHANGED arg
  /\ UNCHANGED hvars

NextHelpers ==
  \/ CallNormalizeBuildState
  \/ CallIsProductionBranch
  \/ CallGetDashboardUrl
  \/ CallGetBuildDuration
  \/ CallExtractBuildError

HelperSpec == InitHelpers /\ [][NextHelpers]_vars

\* --------------------------------------------------------------- type check
TypeOK ==
  /\ env \in Envs
  /\ pc \in {"idle", "loop", "build_wait", "sub_wait", "logs_wait", "post_wait", "done", "thrown"}
  /\ Len(batch) <= MaxBatch
  /\ idx \in 1..(Len(batch) + 1)
  /\ Len(pages) <= MaxPages

\* ------------------------------------------------------------ claim helpers
Msgs == 1..Len(batch)

webhookSet == env.SLACK_WEBHOOK_URL # ""

\* queue() has returned or rejected
returned == pc \in {"done", "thrown"}

\* the for loop is past message i
finished(i) == pc = "done" \/ (pc \notin {"idle", "thrown"} /\ idx > i)

\* the event lacks type, payload or metadata
lacksField(event) ==
  event.typeKind = "absent" \/ ~event.hasPayload \/ ~event.hasMetadata

\* a started or queued event
lifecycleNoise(event) ==
  \E k \in 1..Len(event.type) : event.type[k] \in {"started", "queued"}

\* a well-typed event that has its three parts and is not started/queued
deliverable(event) ==
  ~lacksField(event) /\ event.typeKind = "string" /\ ~lifecycleNoise(event)

\* C1: with the webhook configured, when queue() returns every message of the
\* batch has had ack() called, whatever happened to each message.
C1_AllAckedOnReturn ==
  (webhookSet /\ returned) => \A i \in Msgs : acks[i] >= 1

C1_Witness ==
  /\ webhookSet /\ pc = "done" /\ Len(batch) = 2
  /\ lacksField(batch[1]) /\ caught[2] = 1 /\ nPost[2] = 1
  /\ acks[1] = 1 /\ acks[2] = 1

\* C2: with SLACK_WEBHOOK_URL missing, queue() acks every message and processes
\* none: no request to the API and no POST for any message.
C2_MissingWebhookAcksAll ==
  (~webhookSet /\ pc # "idle") =>
     /\ pc = "done"
     /\ reqLog = <<>> /\ pending = NoRequest
     /\ \A i \in Msgs : acks[i] = 1 /\ nEnrich[i] = 0 /\ nPost[i] = 0

C2_Witness ==
  /\ ~webhookSet /\ pc = "done" /\ Len(batch) = 2
  /\ deliverable(batch[1]) /\ acks[1] = 1 /\ acks[2] = 1

\* C3: a message whose event lacks type, payload or metadata is acked, never
\* retried and causes no request at all; the messages after it are processed
\* as usual (every deliverable one gets its POST).
C3_InvalidDropped ==
  webhookSet =>
    \A i \in Msgs : lacksField(batch[i]) =>
       /\ nEnrich[i] = 0 /\ nPost[i] = 0 /\ retries[i] = 0 /\ caught[i] = 0
       /\ finished(i) => acks[i] = 1
       /\ \A j \in Msgs : (j > i /\ finished(j)) =>
            /\ acks[j] = 1
            /\ deliverable(batch[j]) => nPost[j] = 1

C3_Witness ==
  /\ webhookSet /\ pc = "done" /\ Len(batch) = 2
  /\ ~batch[1].hasMetadata /\ acks[1] = 1 /\ nPost[1] = 0
  /\ nPost[2] = 1 /\ acks[2] = 1

\* C4: an exception thrown while message i is processed is caught per message:
\* queue() never throws, message i is acked, and the later messages are still
\* processed.
C4_ExceptionsContained ==
  /\ pc # "thrown"
  /\ \A i \in Msgs : caught[i] >= 1 =>
       /\ acks[i] = 1
       /\ finished(i)
       /\ pc = "done" => \A j \in Msgs : j > i =>
            /\ acks[j] = 1
            /\ deliverable(batch[j]) => nPost[j] = 1

C4_Witness ==
  /\ pc = "done" /\ Len(batch) = 2
  /\ caught[1] = 1 /\ nPost[1] = 1 /\ acks[1] = 1
  /\ nPost[2] = 1 /\ acks[2] = 1

\* C5: an enrichment call that fails is not propagated: every deliverable
\* message gets exactly one POST, and when an enrichment call threw while the
\* URLs were fetched the payload is built without a URL button.
C5_EnrichmentFailureContained ==
  /\ \A i \in Msgs :
       (webhookSet /\ finished(i) /\ deliverable(batch[i])) => nPost[i] = 1
  /\ (enrichErr # {} /\ pc = "post_wait") =>
       /\ sent # NoPayload
       /\ nPost[idx] = 1
  /\ ("urls" \in enrichErr /\ sent # NoPayload) =>
       \A k \in 1..Len(sent.buttons) : sent.buttons[k].style # "primary"

C5_Witness ==
  /\ pc = "post_wait" /\ "urls" \in enrichErr
  /\ nEnrich[idx] = 2 /\ nPost[idx] = 1 /\ sent.template = "production"

\* C6: at most one POST per message; a non-2xx answer of the sink leads to no
\* second POST and the message is acked all the same.
C6_AtMostOnePost ==
  /\ \A i \in Msgs : nPost[i] <= 1
  /\ slackResp.r \in {"error_text", "error_text_throws"} =>
       /\ nPost[slackResp.msg] = 1
       /\ acks[slackResp.msg] = 1
       /\ retries[slackResp.msg] = 0
       /\ pending = NoRequest

C6_Witness ==
  /\ slackResp.r = "error_text" /\ slackResp.msg = 1 /\ Len(batch) = 2
  /\ nPost[1] = 1 /\ acks[1] = 1 /\ pc = "loop"

\* C7: messages are handled one after another: a request for message j is
\* issued only when every earlier message is acked and has no request in flight.
C7_Sequential ==
  \A j \in Msgs :
    (nEnrich[j] + nPost[j] > 0 \/ pending.msg = j) =>
       \A k \in Msgs : k < j => (acks[k] >= 1 /\ pending.msg # k)

C7_Witness ==
  /\ Len(batch) = 2 /\ pending = [msg |-> 2, kind |-> "logs"]
  /\ nEnrich[1] = 2 /\ nPost[1] = 1 /\ acks[1] = 1 /\ acks[2] = 0

\* --- log pagination
isLogsRequest(q) == q.kind = "logs"
logRequests == SelectSeq(reqLog, isLogsRequest)

\* the page answered "truncated" and carried a non-empty cursor
pageGoesOn(r) == r.outcome = "json" /\ r.hasResult /\ r.truncated /\ r.cursor # ""

RECURSIVE linesOfPages(_)
linesOfPages(ps) ==
  IF ps = <<>> THEN <<>>
  ELSE linesOfPages(SubSeq(ps, 1, Len(ps) - 1))
       \o [k \in 1..Len(ps[Len(ps)].lines) |-> ps[Len(ps)].lines[k][2]]

\* C8: pages are requested one at a time, each with the cursor of the page
\* before; paging stops at the first page that is not truncated or has no
\* cursor; the logs are the lines of the pages requested, in page order. A
\* first page with a cursor followed by a truncated page without cursor makes
\* exactly two requests.
C8_Pagination ==
  /\ Len(logRequests) = Len(pages) + (IF pc = "logs_wait" THEN 1 ELSE 0)
  /\ \A k \in 1..Len(pages) : pageGoesOn(pages[k]) <=> k < Len(logRequests)
  /\ \A k \in 1..Len(logRequests) :
       logRequests[k].cursor = IF k = 1 THEN "" ELSE pages[k - 1].cursor
  /\ logs = linesOfPages(pages)
  /\ ( /\ Len(pages) >= 2
       /\ pageGoesOn(pages[1])
       /\ pages[2].truncated /\ pages[2].cursor = "" )
     => (Len(logRequests) = 2 /\ pc # "logs_wait")

C8_Witness ==
  /\ pc = "post_wait" /\ Len(pages) = 2 /\ Len(logRequests) = 2
  /\ pageGoesOn(pages[1]) /\ pages[2].truncated /\ pages[2].cursor = ""
  /\ logs = <<"step ok", "    at f (x.js:1)", "ERROR: boom">>

\* --- states of a build
\* index.ts notifies the event with the cancelled template
notifiedCancelled(event) ==
  buildSlackBlocks(event, NULL, NULL, <<>>).template = "cancelled"

canceledOrUnknown(event) ==
  \/ normalizeBuildState(event) \in {"canceled", "unknown"}
  \/ notifiedCancelled(event)

isUrlRequest(q) == q.kind \in {"build", "subdomain"}
urlRequests == SelectSeq(reqLog, isUrlRequest)

tokenSet == env.CLOUDFLARE_API_TOKEN # ""

\* the loop body of message idx is past its first await
inBody == pc \in {"build_wait", "sub_wait", "logs_wait", "post_wait"}

primaryButtons(payload) ==
  {k \in 1..Len(payload.buttons) : payload.buttons[k].style = "primary"}

C12_NoTokenNoEnrichment ==
  ~tokenSet =>
    /\ \A i \in Msgs :
         /\ nEnrich[i] = 0
         /\ (webhookSet /\ finished(i) /\ deliverable(batch[i])) =>
              nPost[i] = 1 /\ acks[i] = 1
    /\ pc \notin {"build_wait", "sub_wait", "logs_wait"}
    /\ enrichErr = {}
    /\ pc = "post_wait" =>
         /\ caught[idx] = 0
         /\ \A k \in 1..Len(reqLog) : reqLog[k].kind = "slack"
         /\ primaryButtons(sent) = {}
         /\ sent.template = "failed" => sent.error = <<"No logs available">>

C12_Witness ==
  /\ ~tokenSet /\ webhookSet /\ pc = "done" /\ Len(batch) = 2
  /\ includes(batch[1].type, "succeeded") /\ batch[2] = evFailed
  /\ nPost = <<1, 1>> /\ acks = <<1, 1>> /\ nEnrich = <<0, 0>>

\* --- normalization of the build state
cancelWords == {"canceled", "cancelled", "canceled_build", "cancelled_build"}
failWords == {"failed", "failure", "error"}
successWords == {"success", "succeeded", "ok"}

\* the type contains the word, whatever the case of its letters
typeSays(event, w) == \E k \in 1..Len(event.type) : toLowerCase(event.type[k]) = w

\* the type names none of the states
ambiguousType(event) ==
  \A w \in {"succeeded", "failed", "canceled", "cancelled"} : ~typeSays(event, w)

\* buildOutcome or status is a word of the set
saysOneOf(event, words) ==
  toLowerCase(event.buildOutcome) \in words \/ toLowerCase(event.status) \in words

normalized == fn = "normalizeBuildState"

failedTypeCancelled(event) ==
  /\ ~lacksField(event) /\ event.typeKind = "string"
  /\ \E k \in 1..Len(event.type) : event.type[k] = "failed"
  /\ event.buildOutcome = "cancelled"

dangerButtons(payload) ==
  {k \in 1..Len(payload.buttons) : payload.buttons[k].style = "danger"}

C17_OnePrimaryButton ==
  ( /\ pc = "post_wait"
    /\ \E k \in 1..Len(batch[idx].type) : batch[idx].type[k] = "succeeded"
    /\ batch[idx].branch = "main"
    /\ liveUrl # NULL ) =>
      /\ Cardinality(primaryButtons(sent)) = 1
      /\ \A k \in primaryButtons(sent) : sent.buttons[k].url = liveUrl

C17_Witness ==
  /\ pc = "post_wait" /\ batch[idx] = evSucceeded
  /\ Len(sent.buttons) = 2
  /\ sent.buttons[1].style = "primary" /\ sent.buttons[1].url = liveUrl
  /\ sent.buttons[2].label = "View Build" /\ sent.buttons[2].style = ""

\* a build.failed event that is not a cancelled build
failedBuild(event) ==
  /\ deliverable(event)
  /\ \E k \in 1..Len(event.type) : event.type[k] = "failed"
  /\ event.buildOutcome # "cancelled"

exists(ts) == ts.k = "ms"

\* there is an end and a start to take the duration from
hasSpan(payload) ==
  /\ exists(payload.stoppedAt)
  /\ exists(payload.runningAt) \/ exists(payload.createdAt)

\* the span the duration is to be taken from
spanMs(payload) ==
  IF exists(payload.stoppedAt) /\ exists(payload.runningAt)
    THEN payload.stoppedAt.ms - payload.runningAt.ms
  ELSE IF exists(payload.stoppedAt) /\ exists(payload.createdAt)
    THEN payload.stoppedAt.ms - payload.createdAt.ms
  ELSE 0

\* C19: the duration is stoppedAt - runningAt when both exist, else stoppedAt -
\* createdAt, else none is given; whatever the timestamps are (absent,
\* unparsable, stoppedAt before the start) the string shows no negative number
\* and no NaN. The seconds shown may be rounded either way.
C19_Duration ==
  fn = "getBuildDuration" =>
    /\ ~res.m.nan /\ ~res.s.nan
    /\ res.m.v >= 0 /\ res.s.v >= 0
    /\ ~hasSpan(arg.v) => res.form = "null"
    /\ (hasSpan(arg.v) /\ spanMs(arg.v) > 0) =>
         /\ res.form # "null"
         /\ 1000 * (60 * res.m.v + res.s.v) <= spanMs(arg.v) + 999
         /\ spanMs(arg.v) <= 1000 * (60 * res.m.v + res.s.v) + 999

\* --- the error snippet
stackFrame(line) == line = "    at f (x.js:1)"

errorLine(line) == line \in {"ERROR: boom", "Error: other", "ERROR: long"}

\* C20: when lines of the log match an indicator, the snippet starts with the
\* matching line closest to the end; it has at most one more line, the line
\* that follows, and only if that is not a stack frame; no stack frame is part
\* of the snippet.
C20_SnippetWithoutStackFrames ==
  fn = "extractBuildError" =>
    LET lg == arg.v
        hits == {i \in 1..Len(lg) : errorLine(lg[i])}
    IN hits # {} =>
         LET i == CHOOSE h \in hits : \A j \in hits : j <= h
         IN /\ Len(res.lines) \in {1, 2}
            /\ res.lines[1] = lg[i]
            /\ Len(res.lines) = 2 => (i < Len(lg) /\ res.lines[2] = lg[i + 1])
            /\ \A k \in 1..Len(res.lines) : ~stackFrame(res.lines[k])

\* the longest snippet before it is clamped, and the length of the marker
snippetMax == 800
markerLength == 4

\* C21: whatever the log is, the snippet is at most snippetMax characters plus
\* the marker; the marker is there exactly when the text was clamped; a single
\* error line of 1500 characters is clamped.
C21_SnippetClamped ==
  fn = "extractBuildError" =>
    /\ res.length <= snippetMax + markerLength
    /\ res.marker => res.length = snippetMax + markerLength
    /\ ~res.marker => res.length <= snippetMax
    /\ arg.v = <<"ERROR: long">> => res.marker

\* the last line of the log that is neither blank nor a stack frame
meaningful(lg) == {k \in 1..Len(lg) : lg[k] \notin {"", "  "} /\ ~stackFrame(lg[k])}

\* C22: for every log, also an empty one, one of blank lines only or one of
\* stack frames only, the snippet is not empty; without a matching line it is
\* the no-logs text, the build-failed text, or text of the log that holds the
\* last meaningful line and no stack frame.
C22_SnippetNeverEmpty ==
  fn = "extractBuildError" =>
    LET lg == arg.v IN
    /\ res.length > 0 /\ Len(res.lines) > 0
    /\ Len(lg) = 0 => res.lines = <<"No logs available">>
    /\ (Len(lg) > 0 /\ \A k \in 1..Len(lg) : ~errorLine(lg[k])) =>
         IF meaningful(lg) = {} THEN res.lines = <<"Build failed">>
         ELSE /\ \A k \in 1..Len(res.lines) : ~stackFrame(res.lines[k])
              /\ \E k \in 1..Len(res.lines) :
                   res.lines[k] = lg[CHOOSE m \in meaningful(lg) : \A j \in meaningful(lg) : j <= m]

\* --- branches and dashboard URLs
productionNames == {"main", "master", "production", "prod"}

\* C23: a branch is production exactly when it is absent or is, whatever the
\* case of its letters, one of main, master, production, prod; main and master
\* are production, feature/x is not.
C23_ProductionBranch ==
  fn = "isProductionBranch" =>
    /\ res <=> (arg.v = "" \/ toLowerCase(arg.v) \in productionNames)
    /\ arg.v \in {"main", "master"} => res
    /\ arg.v = "feature/x" => ~res

C23_Witness == fn = "isProductionBranch" /\ arg.v = "MASTER" /\ res

\* the name the URL is to carry
dashboardName(event) ==
  IF event.workerName # "" THEN event.workerName
  ELSE IF event.repoName # "" THEN event.repoName
  ELSE "worker"

\* C24: the dashboard URL is null when accountId or buildUuid is absent;
\* otherwise it is the template filled with accountId, the worker name and
\* buildUuid, the name being source.workerName, else repoName, else "worker".
C24_DashboardUrl ==
  fn = "getDashboardUrl" =>
    /\ (arg.v.accountId = "" \/ arg.v.buildUuid = "") => res = NULL
    /\ (arg.v.accountId # "" /\ arg.v.buildUuid # "") =>
         res = << "https://dash.cloudflare.com/", arg.v.accountId,
                  "/workers/services/view/", dashboardName(arg.v),
                  "/production/builds/", arg.v.buildUuid >>

C24_Witness ==
  /\ fn = "getDashboardUrl"
  /\ arg.v.workerName = "" /\ arg.v.repoName = "fallback-worker"
  /\ res # NULL /\ res[4] = "fallback-worker"

\* --- the failed notification
labels(payload) == {payload.buttons[k].label : k \in 1..Len(payload.buttons)}

\* the event has what the dashboard URL is made of
dashboardKnown(event) == event.accountId # "" /\ event.buildUuid # ""

\* C25 as stated: every notification of a failed event has the "View Full Logs"
\* button styled danger.
C25_AlwaysFullLogsButton ==
  (pc = "post_wait" /\ failedBuild(batch[idx])) =>
    \E k \in 1..Len(sent.buttons) :
      sent.buttons[k].label = "View Full Logs" /\ sent.buttons[k].style = "danger"

\* C25, amended: the notification of a failed event has one code block with
\* the extracted error, never a "View Build" button, and - when the event has
\* accountId and buildUuid - the "View Full Logs" button styled danger as its
\* only button; without them it has no button. A notification that is not for
\* a failed event never has "View Full Logs".
C25_FailedNotification ==
  pc = "post_wait" =>
    IF failedBuild(batch[idx])
      THEN /\ sent.template = "failed"
           /\ Cardinality({k \in 1..Len(sent.blocks) : sent.blocks[k] = "code"}) = 1
           /\ Len(sent.error) > 0
           /\ \/ sent.error \in {<<"No logs available">>, <<"Build failed">>}
              \/ \A k \in 1..Len(sent.error) : \E j \in 1..Len(logs) : logs[j] = sent.error[k]
           /\ "View Build" \notin labels(sent)
           /\ IF dashboardKnown(batch[idx])
                THEN /\ Len(sent.buttons) = 1
                     /\ sent.buttons[1].label = "View Full Logs"
                     /\ sent.buttons[1].style = "danger"
                ELSE sent.buttons = <<>>
      ELSE "View Full Logs" \notin labels(sent) /\ dangerButtons(sent) = {}

C25_Witness ==
  /\ pc = "post_wait" /\ batch[idx] = evFailed
  /\ logs = <<"step ok", "    at f (x.js:1)", "ERROR: boom">>
  /\ sent.error = <<"ERROR: boom">>
  /\ sent.buttons[1].label = "View Full Logs" /\ sent.buttons[1].style = "danger"

\* --- the order of the steps of one message
\* what holds while the POST of message idx is awaited: every enrichment
\* request was answered, the POST is the last request and the only one to the
\* webhook, and ack() was not called yet
postAwaited ==
  pc = "post_wait" =>
    /\ pending = [msg |-> idx, kind |-> "slack"]
    /\ Len(logRequests) = Len(pages)
    /\ reqLog[Len(reqLog)].kind = "slack"
    /\ \A k \in 1..(Len(reqLog) - 1) : reqLog[k].kind # "slack"
    /\ acks[idx] = 0

\* one step of the handler on message idx
orderedStep ==
  pc \notin {"idle", "done", "thrown"} =>
    \* an enrichment request is issued before the POST only
    /\ nEnrich'[idx] > nEnrich[idx] => (nPost[idx] = 0 /\ nPost'[idx] = 0)
    \* the POST is issued when no enrichment request is awaited any more
    /\ nPost'[idx] > nPost[idx] => (pc # "post_wait" /\ pending'.kind = "slack")
    \* ack() is called for a message nothing was sent for, or when the POST
    \* has returned or thrown
    /\ acks'[idx] > acks[idx] =>
         \/ nEnrich[idx] = 0 /\ nPost[idx] = 0 /\ nPost'[idx] = 0 /\ pc = "loop"
         \/ nPost[idx] = 1 /\ pc = "post_wait"

\* C26: for each message the enrichment requests are all answered before the
\* POST is issued, ack() is called only after the POST has returned or thrown,
\* and no enrichment request follows the POST.
C26_StepOrder == [](postAwaited /\ \A i \in Msgs : (inBody /\ idx = i) => acks[i] = 0)
                 /\ [][orderedStep]_vars

C26_Witness ==
  /\ pc = "post_wait" /\ Len(reqLog) = 3 /\ acks[idx] = 0
  /\ reqLog[1].kind = "build" /\ reqLog[2].kind = "subdomain" /\ reqLog[3].kind = "slack"
  /\ nEnrich[idx] = 2 /\ nPost[idx] = 1

\* C27: when an enrichment request of a message fails, the notification is
\* built from empty enrichment data: if a log page request failed (network
\* error, non-JSON body, error status or success:false, also after earlier
\* pages were read) the collected log is empty, and if the build details were
\* answered with an error status or success:false both previewUrl and liveUrl
\* are null.
failedPage(r) == r.outcome # "json" \/ ~r.ok

C27_FailedEnrichmentIsEmpty ==
  pc = "post_wait" =>
    /\ (\E k \in 1..Len(pages) : failedPage(pages[k])) => logs = <<>>
    /\ "build_status" \in enrichErr => (previewUrl = NULL /\ liveUrl = NULL)

\* --- isolation of the messages of a batch
previewUrlsOffered == {r.preview_url : r \in BuildResponses} \ {NULL}
liveUrlsFor(event) == {synthLiveUrl(event, r) : r \in SubdomainResponses} \ {NULL}

requested(kind) == \E k \in 1..Len(reqLog) : reqLog[k].kind = kind

\* C28: the payload POSTed for a message is a function of that message's event
\* and of the answers to that message's own requests only: it is
\* buildSlackBlocks of the event, of a preview URL that an answer to this
\* message's build-details request offered (or null), of a live URL made from
\* this event's worker name and an answer to this message's subdomain request
\* (or null), and of the lines of this message's own log pages; a message that
\* made no request is notified from its event alone, whatever the messages
\* before it in the batch fetched.
C28_OwnInputsOnly ==
  pc = "post_wait" =>
    /\ sent = buildSlackBlocks(batch[idx], previewUrl, liveUrl, linesOfPages(pages))
    /\ previewUrl # NULL => (requested("build") /\ previewUrl \in previewUrlsOffered)
    /\ liveUrl # NULL =>
         (requested("subdomain") /\ liveUrl \in liveUrlsFor(batch[idx]))
    /\ ~requested("logs") => pages = <<>>
    /\ nEnrich[idx] = 0 => sent = buildSlackBlocks(batch[idx], NULL, NULL, <<>>)

\* the second message of a batch is notified without any request of its own,
\* after a first message that fetched log pages
C28_Witness ==
  /\ pc = "post_wait" /\ idx = 2 /\ tokenSet
  /\ batch[1] = evFailed /\ nEnrich[1] >= 1 /\ nPost[1] = 1
  /\ batch[2] = evFailedNoAcct /\ nEnrich[2] = 0
  /\ sent = buildSlackBlocks(evFailedNoAcct, NULL, NULL, <<>>)

\* --- settlement of a message
\* the error branch ran after the POST: reading the body of the non-2xx answer
\* threw
threwAfterPost(i) == slackResp = [msg |-> i, r |-> "error_text_throws"]

\* C29: ack() is called at most once for a message and retry() never, on every
\* path; when the read of a non-2xx answer's body throws after the POST, the
\* catch block's ack() is the only one for that message.
C29_SettledOnce ==
  \A i \in Msgs :
    /\ acks[i] <= 1
    /\ retries[i] = 0
    /\ threwAfterPost(i) => (nPost[i] = 1 /\ caught[i] = 1 /\ acks[i] = 1)

C29_Witness ==
  /\ Len(batch) = 2 /\ pc = "loop" /\ idx = 2
  /\ threwAfterPost(1) /\ nPost[1] = 1 /\ caught[1] = 1 /\ acks[1] = 1
  /\ retries[1] = 0

\* --- kinds of enrichment
\* C30: no event triggers both kinds of enrichment: a message never sends both
\* a URL request (build details, subdomain) and a log request, so a
\* notification is never built from log lines together with a preview or live
\* URL.
C30_OneKindOfEnrichment ==
  inBody =>
    /\ ~((requested("build") \/ requested("subdomain")) /\ requested("logs"))
    /\ ~(logs # <<>> /\ (previewUrl # NULL \/ liveUrl # NULL))

\* C9: the log pagination loop stops for every sequence of API answers.
C9_PaginationTerminates == [](pc = "logs_wait" => <>(pc # "logs_wait"))

====
